---- MODULE Spec2Model ----
(***************************************************************************)
(* Model of the API-key registry (src/src/core/auth.py, APIKeyManager) and *)
(* of the authentication gate and admin check in front of the routes       *)
(* (src/src/api/routes.py).                                                *)
(*                                                                         *)
(* Python strings are modelled as sequences of one-character strings, so   *)
(* that strip(), startswith(), split() and slicing are computed the way    *)
(* the code computes them.  The dict api_keys is modelled as a sequence of *)
(* records in insertion order (Python dicts keep insertion order); the     *)
(* field created_at, which no decision of the code reads, is left out.     *)
(* Time is counted in ticks; time.time() is the tick count and             *)
(* int(time.time()) is the whole number of seconds in it.                  *)
(***************************************************************************)
EXTENDS Integers, Sequences, FiniteSets, TLC

VARIABLES
    api_keys,          \* APIKeyManager.api_keys: records in insertion order
    active_keys,       \* APIKeyManager.active_keys
    last_reload_time,  \* APIKeyManager.last_reload_time
    file,              \* the backing store keys_file: exists, lines, mtime
    now,               \* the wall clock, in ticks
    DISABLE_AUTH,      \* process-wide flag read by the middleware
    ADMIN_API_KEY,     \* configured administrative secret (<<>> when unset)
    req,               \* in-flight HTTP requests, one slot per client
    last,              \* the last registry call: operation, argument, result
    deactivated,       \* secrets deactivated with success and not activated since
    chat,              \* the chat-completion request in flight and its response
    thr                \* threads calling validate_key: position and locals

vars == <<api_keys, active_keys, last_reload_time, file, now,
          DISABLE_AUTH, ADMIN_API_KEY, req, last, deactivated, chat, thr>>

regVars == <<api_keys, active_keys, last_reload_time>>
cfgVars == <<DISABLE_AUTH, ADMIN_API_KEY>>

-----------------------------------------------------------------------------
(* Bounds of the model *)

MaxTicks == 1
TicksPerSec == 2
MaxUsage == 2
MaxDescLen == 10
MaxUnits == 2

-----------------------------------------------------------------------------
(* Strings as sequences of characters *)

EmptyStr == <<>>

WhiteSpace == {" ", "\t"}

\* index of the first occurrence of ch in s, 0 when there is none (str.find + 1)
IndexOf(s, ch) ==
    IF \E i \in 1..Len(s) : s[i] = ch
    THEN CHOOSE i \in 1..Len(s) : s[i] = ch /\ \A j \in 1..(i-1) : s[j] # ch
    ELSE 0

\* str.strip(): drops leading and trailing whitespace
Strip(s) ==
    IF \A i \in 1..Len(s) : s[i] \in WhiteSpace
    THEN EmptyStr
    ELSE LET first == CHOOSE i \in 1..Len(s) :
                         s[i] \notin WhiteSpace /\ \A j \in 1..(i-1) : s[j] \in WhiteSpace
             lastc == CHOOSE i \in 1..Len(s) :
                         s[i] \notin WhiteSpace /\ \A j \in (i+1)..Len(s) : s[j] \in WhiteSpace
         IN  SubSeq(s, first, lastc)

\* str.startswith(p)
StartsWith(s, p) == Len(s) >= Len(p) /\ SubSeq(s, 1, Len(p)) = p

\* s[n:] (Python slice from 0-based offset n)
SliceFrom(s, n) == SubSeq(s, n + 1, Len(s))

\* line.split(':', 2): at most three parts, cut at the first two colons
Split2(line) ==
    LET i1 == IndexOf(line, ":")
    IN  IF i1 = 0 THEN <<line>>
        ELSE LET head == SubSeq(line, 1, i1 - 1)
                 rest == SliceFrom(line, i1)
                 i2   == IndexOf(rest, ":")
             IN  IF i2 = 0 THEN <<head, rest>>
                 ELSE <<head, SubSeq(rest, 1, i2 - 1), SliceFrom(rest, i2)>>

\* int(time.time()): whole seconds of a tick count
IntTime(t) == t \div TicksPerSec

\* the clock when the process starts (the last tick of a second), and where the
\* model stops it
StartTime == 2 * TicksPerSec - 1
MaxTime == StartTime + MaxTicks

-----------------------------------------------------------------------------
(* The strings of the model *)

PREFIX == <<"s", "k", "-">>
ADMIN_NAME == <<"a", "d", "m", "i", "n", "_", "k", "e", "y">>
INACTIVE == <<"i", "n", "a", "c", "t", "i", "v", "e">>

KeyA == <<"s", "k", "-", "a">>
KeyB == <<"s", "k", "-", "b">>
KeyX == <<"s", "k", "-", "x">>
NameU == <<"u">>

\* the secrets the random source of create_key can produce (secrets.token_urlsafe)
KeyN == <<"s", "k", "-", "n">>
FreshKeys == {KeyN}

LineAdmin   == ADMIN_NAME \o <<":">> \o KeyA
LineUser    == <<"u", ":", " ">> \o KeyB \o <<" ", ":", "d">>
LineDup     == <<"u", ":">> \o KeyA
LineComment == <<" ", "#", "u", ":">> \o KeyB
LineBlank   == <<" ", "\t">>
LineBad     == <<"u", ":", "x", "k", "-", "b">>
LineNoColon == KeyB

\* contents an operator may give the backing store
StoreContents ==
    { <<LineComment, LineAdmin, LineUser>>,
      <<LineBlank, LineBad, LineNoColon, LineUser>>,
      <<LineAdmin, LineDup>>,
      <<>> }

\* arguments passed to deactivate_key and activate_key
LifecycleKeys == {KeyA, KeyX}

\* arguments passed to validate_key
RawKeys ==
    { EmptyStr, <<" ">> \o KeyA \o <<"\t">>, KeyB, KeyX }

-----------------------------------------------------------------------------
(* The dict api_keys as a sequence of records in insertion order *)

Keys(t) == { t[i].key : i \in 1..Len(t) }

Pos(t, k) == CHOOSE i \in 1..Len(t) : t[i].key = k

\* api_keys.get(k): the record, or None
NoRecord == [key |-> EmptyStr, name |-> EmptyStr, description |-> EmptyStr,
             usage_count |-> -1, last_used |-> 0, is_active |-> FALSE]

Get(t, k) == IF k \in Keys(t) THEN t[Pos(t, k)] ELSE NoRecord

\* api_keys[k] = r: replaces in place, or appends
Put(t, r) ==
    IF r.key \in Keys(t) THEN [t EXCEPT ![Pos(t, r.key)] = r] ELSE Append(t, r)

NewRecord(k, name, desc) ==
    [key |-> k, name |-> name, description |-> desc,
     usage_count |-> 0, last_used |-> 0, is_active |-> TRUE]

-----------------------------------------------------------------------------
(* APIKeyManager: the registry operations, as functions of the registry     *)
(* state R = [api_keys, active_keys, last_reload_time]                      *)

Registry(t, a, l) == [api_keys |-> t, active_keys |-> a, last_reload_time |-> l]

\* no exception while reading the store
NoFail == -1

\* where a read of the store can raise: at open (0) or after i lines were read
FailPoints(f) ==
    {NoFail} \cup (IF f.exists THEN 0..(IF Len(f.lines) = 0 THEN 0 ELSE Len(f.lines) - 1)
                   ELSE {})

\* load_keys, the parse of one line: whether it yields a record, and its fields
NoParse == [ok |-> FALSE, key |-> EmptyStr, name |-> EmptyStr, description |-> EmptyStr]

ParseLine(rawline) ==
    LET line == Strip(rawline)
    IN  IF line = EmptyStr \/ StartsWith(line, <<"#">>) THEN NoParse
        ELSE LET parts == Split2(line)
             IN  IF Len(parts) < 2 THEN NoParse
                 ELSE LET key_name    == Strip(parts[1])
                          api_key     == Strip(parts[2])
                          description == IF Len(parts) > 2 THEN Strip(parts[3]) ELSE EmptyStr
                      IN  IF ~StartsWith(api_key, PREFIX) THEN NoParse
                          ELSE [ok |-> TRUE, key |-> api_key, name |-> key_name,
                                description |-> description]

\* the parse of the lines of StoreContents, computed once
StoreLines == UNION { { c[i] : i \in 1..Len(c) } : c \in StoreContents }
ParsedStoreLines == [l \in StoreLines |-> ParseLine(l)]
Parsed(rawline) ==
    IF rawline \in StoreLines THEN ParsedStoreLines[rawline] ELSE ParseLine(rawline)

\* load_keys, the body of the loop over the lines of the file
LoadLine(R, rawline) ==
    LET p == Parsed(rawline)
    IN  IF ~p.ok THEN R
        ELSE [R EXCEPT !.api_keys = Put(@, NewRecord(p.key, p.name, p.description)),
                       !.active_keys = @ \cup {p.key}]

\* load_keys, the loop over the first n lines
RECURSIVE LoadLines(_, _, _)
LoadLines(R, lines, n) ==
    IF n = 0 THEN R ELSE LoadLine(LoadLines(R, lines, n - 1), lines[n])

\* load_keys without the two clear() calls: the store is merged into the table
load_keys_Merges(R, f, fail, t) ==
    IF ~f.exists
    THEN [reg |-> R, ret |-> FALSE]
    ELSE IF fail # NoFail
         THEN [reg |-> LoadLines(R, f.lines, fail), ret |-> FALSE]
         ELSE [reg |-> [LoadLines(R, f.lines, Len(f.lines))
                           EXCEPT !.last_reload_time = t],
               ret |-> TRUE]

\* load_keys: the registry after the call and the value returned
load_keys(R, f, fail, t) ==
    IF ~f.exists
    THEN [reg |-> R, ret |-> FALSE]
    ELSE LET cleared == [R EXCEPT !.api_keys = <<>>, !.active_keys = {}]
         IN  IF fail # NoFail
             THEN [reg |-> LoadLines(cleared, f.lines, fail), ret |-> FALSE]
             ELSE [reg |-> [LoadLines(cleared, f.lines, Len(f.lines))
                               EXCEPT !.last_reload_time = t],
                   ret |-> TRUE]

\* _should_reload with >= in place of >
should_reload_NotStrict(R, f) == f.exists /\ f.mtime >= R.last_reload_time

\* _should_reload
should_reload(R, f) == f.exists /\ f.mtime > R.last_reload_time

\* the lookup without the usage_count update
ValidateLookup_NoCount(R, api_key, t) ==
    IF api_key \in Keys(R.api_keys) /\ Get(R.api_keys, api_key).is_active
    THEN [reg |-> [R EXCEPT !.api_keys[Pos(R.api_keys, api_key)] =
                               [@ EXCEPT !.last_used = IntTime(t)]],
          ret |-> TRUE]
    ELSE [reg |-> R, ret |-> FALSE]

\* the lookup without the is_active test
ValidateLookup_IgnoresActive(R, api_key, t) ==
    IF api_key \in Keys(R.api_keys)
    THEN [reg |-> [R EXCEPT !.api_keys[Pos(R.api_keys, api_key)] =
                               [@ EXCEPT !.usage_count = @ + 1, !.last_used = IntTime(t)]],
          ret |-> TRUE]
    ELSE [reg |-> R, ret |-> FALSE]

\* validate_key, the lookup and counter update under the lock
ValidateLookup(R, api_key, t) ==
    IF api_key \in Keys(R.api_keys) /\ Get(R.api_keys, api_key).is_active
    THEN [reg |-> [R EXCEPT !.api_keys[Pos(R.api_keys, api_key)] =
                               [@ EXCEPT !.usage_count = @ + 1, !.last_used = IntTime(t)]],
          ret |-> TRUE]
    ELSE [reg |-> R, ret |-> FALSE]

\* validate_key: the registry after the call, the value returned, and whether
\* the call went through load_keys
validate_key(R, f, raw, fail, t) ==
    IF raw = EmptyStr
    THEN [reg |-> R, ret |-> FALSE, reloaded |-> FALSE]
    ELSE LET api_key == Strip(raw)
             reload  == should_reload(R, f)
             R1      == IF reload THEN load_keys(R, f, fail, t).reg ELSE R
             res     == ValidateLookup(R1, api_key, t)
         IN  [reg |-> res.reg, ret |-> res.ret, reloaded |-> reload]

\* get_key_info
get_key_info(R, raw) ==
    IF raw = EmptyStr THEN NoRecord ELSE Get(R.api_keys, Strip(raw))

\* deactivate_key without active_keys.discard
deactivate_key_KeepsIndex(R, api_key) ==
    IF api_key \in Keys(R.api_keys)
    THEN [reg |-> [R EXCEPT !.api_keys[Pos(R.api_keys, api_key)].is_active = FALSE],
          ret |-> TRUE]
    ELSE [reg |-> R, ret |-> FALSE]

\* deactivate_key
deactivate_key(R, api_key) ==
    IF api_key \in Keys(R.api_keys)
    THEN [reg |-> [R EXCEPT !.api_keys[Pos(R.api_keys, api_key)].is_active = FALSE,
                            !.active_keys = @ \ {api_key}],
          ret |-> TRUE]
    ELSE [reg |-> R, ret |-> FALSE]

\* activate_key
activate_key(R, api_key) ==
    IF api_key \in Keys(R.api_keys)
    THEN [reg |-> [R EXCEPT !.api_keys[Pos(R.api_keys, api_key)].is_active = TRUE,
                            !.active_keys = @ \cup {api_key}],
          ret |-> TRUE]
    ELSE [reg |-> R, ret |-> FALSE]

\* create_key, with the secret the random source produced
create_key(R, api_key, key_name, description) ==
    [R EXCEPT !.api_keys = Put(@, NewRecord(api_key, key_name, description)),
              !.active_keys = @ \cup {api_key}]

\* save_keys, the line written for one record
SaveLine(info) ==
    info.name \o <<":">> \o info.key \o <<":">> \o info.description \o <<" ">>
        \o (IF ~info.is_active THEN INACTIVE ELSE EmptyStr)

\* save_keys, the lines written: the header and one line per record
SaveHeader == << <<"#", " ", "A", "P", "I">>, <<"#", " ", "f", "m", "t">>,
                 <<"#", " ", "o", "n", "e">>, <<"#", " ", "g", "e", "n">>, EmptyStr >>

save_keys(R) ==
    SaveHeader \o [i \in 1..Len(R.api_keys) |-> SaveLine(R.api_keys[i])]

-----------------------------------------------------------------------------
(* State *)

Clients == {"c1", "c2"}

IdleReq == [pc |-> "idle", route |-> "none", header |-> EmptyStr, api_key |-> EmptyStr,
            status |-> 0, ran |-> FALSE]

\* an outbound event "data: ...": a chunk with its delta and finish_reason, or
\* the "[DONE]" sentinel
Event(done, role, content, finish_reason) ==
    [done |-> done, role |-> role, content |-> content, finish_reason |-> finish_reason]

NoEvent == Event(FALSE, "", EmptyStr, "")

\* completion objects: usage and the choices (role, content, finish_reason)
Completion(prompt_tokens, completion_tokens, total_tokens, choices) ==
    [usage |-> [prompt_tokens |-> prompt_tokens, completion_tokens |-> completion_tokens,
                total_tokens |-> total_tokens],
     choices |-> choices]

\* no object returned
NoObject == Completion(0, 0, 0, <<>>)

\* no chat-completion request yet
IdleChat ==
    [pc |-> "idle", has_messages |-> FALSE, stream |-> FALSE, n |-> 0,
     ending |-> "complete", pos |-> 0, chunk |-> NoEvent, status |-> 0, raised |-> 0,
     out |-> <<>>, object |-> NoObject, state |-> "NONE", contacted |-> FALSE,
     disconnected |-> FALSE, samples |-> 0, cancelled |-> FALSE]

Threads == {"t1", "t2"}

IdleThread == [pc |-> "idle", api_key |-> EmptyStr, ret |-> FALSE]

CurrentReg == Registry(api_keys, active_keys, last_reload_time)

SetReg(R) ==
    /\ api_keys' = R.api_keys
    /\ active_keys' = R.active_keys
    /\ last_reload_time' = R.last_reload_time

\* the record of a registry call
Called(op, key, ret, reloaded) ==
    [op |-> op, key |-> key, ret |-> ret, reloaded |-> reloaded]

MissingFile == [exists |-> FALSE, lines |-> <<>>, mtime |-> 0]

\* __init__: an empty registry never loaded; the store, when there is one, was
\* written before the process started
InitRegistry ==
    /\ api_keys = <<>>
    /\ active_keys = {}
    /\ last_reload_time = 0
    /\ now = StartTime
    /\ file \in {MissingFile}
                  \cup { [exists |-> TRUE, lines |-> c, mtime |-> StartTime - 1] :
                           c \in StoreContents }
    /\ req = [c \in Clients |-> IdleReq]
    /\ deactivated = {}
    /\ last = [op |-> "none", key |-> EmptyStr, ret |-> FALSE, reloaded |-> FALSE]
    /\ chat = IdleChat
    /\ thr = [t \in Threads |-> IdleThread]

Init ==
    /\ InitRegistry
    /\ DISABLE_AUTH = FALSE
    /\ ADMIN_API_KEY = EmptyStr

-----------------------------------------------------------------------------
(* The environment: the clock and the backing store *)

Tick ==
    /\ now < MaxTime
    /\ now' = now + 1
    /\ UNCHANGED <<regVars, file, cfgVars, chat, thr, req, last, deactivated>>

\* an operator rewrites the store; the write is stamped with its time
StoreWrite ==
    /\ now < MaxTime
    /\ \E c \in StoreContents :
          file' = [exists |-> TRUE, lines |-> c, mtime |-> now + 1]
    /\ now' = now + 1
    /\ UNCHANGED <<regVars, cfgVars, chat, thr, req, last, deactivated>>

StoreDelete ==
    /\ file.exists
    /\ file' = MissingFile
    /\ UNCHANGED <<regVars, now, cfgVars, chat, thr, req, last, deactivated>>

-----------------------------------------------------------------------------
(* Calls of the registry operations *)

Load ==
    \E fail \in FailPoints(file) :
       \E res \in {load_keys(CurrentReg, file, fail, now)} :
           /\ SetReg(res.reg)
           /\ last' = Called("load", EmptyStr, res.ret, TRUE)
           /\ UNCHANGED <<file, now, cfgVars, chat, thr, req, deactivated>>

Validate ==
    \E raw \in RawKeys :
    \E fail \in (IF raw # EmptyStr /\ should_reload(CurrentReg, file)
                 THEN FailPoints(file) ELSE {NoFail}) :
       \E res \in {validate_key(CurrentReg, file, raw, fail, now)} :
           /\ \A i \in 1..Len(res.reg.api_keys) :
                 res.reg.api_keys[i].usage_count <= MaxUsage
           /\ SetReg(res.reg)
           /\ last' = Called("validate", raw, res.ret, res.reloaded)
           /\ UNCHANGED <<file, now, cfgVars, chat, thr, req, deactivated>>

Create ==
    /\ \E name \in {NameU}, k \in FreshKeys :
          /\ k \notin Keys(api_keys)
          /\ SetReg(create_key(CurrentReg, k, name, EmptyStr))
          /\ last' = Called("create", k, TRUE, FALSE)
    /\ UNCHANGED <<file, now, cfgVars, chat, thr, req, deactivated>>

Deactivate ==
    \E k \in LifecycleKeys :
       \E res \in {deactivate_key(CurrentReg, k)} :
           /\ SetReg(res.reg)
           /\ last' = Called("deactivate", k, res.ret, FALSE)
           /\ deactivated' = IF res.ret THEN deactivated \cup {k} ELSE deactivated
           /\ UNCHANGED <<file, now, cfgVars, chat, thr, req>>

Activate ==
    \E k \in LifecycleKeys :
       \E res \in {activate_key(CurrentReg, k)} :
           /\ SetReg(res.reg)
           /\ last' = Called("activate", k, res.ret, FALSE)
           /\ deactivated' = deactivated \ {k}
           /\ UNCHANGED <<file, now, cfgVars, chat, thr, req>>

\* save_keys: a full rewrite of the store, or no change when open() raises
Save ==
    /\ now < MaxTime
    /\ \A i \in 1..Len(api_keys) :
          Len(Strip(api_keys[i].description \o <<" ">> \o INACTIVE)) <= MaxDescLen
    /\ \E opened \in BOOLEAN :
          /\ file' = IF opened
                     THEN [exists |-> TRUE, lines |-> save_keys(CurrentReg), mtime |-> now + 1]
                     ELSE file
          /\ last' = Called("save", EmptyStr, opened, FALSE)
    /\ now' = now + 1
    /\ UNCHANGED <<regVars, cfgVars, chat, thr, req, deactivated>>

Next ==
    \/ Tick
    \/ StoreWrite
    \/ StoreDelete
    \/ Load
    \/ Validate
    \/ Create
    \/ Deactivate
    \/ Activate

Spec == Init /\ [][Next]_vars

\* the registry with save_keys, without create_key
NextSave ==
    \/ Tick
    \/ StoreWrite
    \/ Load
    \/ Validate
    \/ Deactivate
    \/ Activate
    \/ Save

SpecSave == Init /\ [][NextSave]_vars

-----------------------------------------------------------------------------
(* The gateway: APIKeyMiddleware and the routes behind it *)

BEARER == <<"B", "e", "a", "r", "e", "r", " ">>
DISABLED == <<"d", "i", "s", "a", "b", "l", "e", "d">>

HeaderPadded == <<" ">> \o BEARER \o <<" ">> \o KeyA \o <<" ">>
HeaderUser   == BEARER \o KeyB
HeaderToken  == <<"T", "o", "k", "e", "n", " ">> \o KeyA
HeaderBare   == BEARER
HeaderWrong  == BEARER \o KeyX

\* Authorization headers of the requests; EmptyStr is a request without one
Headers == {EmptyStr, HeaderPadded, HeaderUser, HeaderToken, HeaderBare, HeaderWrong}

Routes == {"health", "models", "admin_list", "admin_create", "admin_reload", "admin_status"}

AdminRoutes == {"admin_list", "admin_create", "admin_reload", "admin_status"}

\* what the clients of the admin routes send: c1 any route with a registered
\* key, c2 (the operator) admin requests with the admin key; neither creates keys
RoutesOf(c) ==
    IF c = "c1" THEN Routes \ {"health", "admin_create"} ELSE AdminRoutes \ {"admin_create"}
HeadersOf(c) == IF c = "c1" THEN {HeaderPadded, HeaderUser} ELSE {HeaderPadded}

\* request.url.path of a route
Path(route) ==
    CASE route = "health" -> "/health"
      [] route = "models" -> "/v1/models"
      [] route = "admin_list" -> "/admin/api-keys"
      [] route = "admin_create" -> "/admin/api-keys"
      [] route = "admin_reload" -> "/admin/api-keys/reload"
      [] route = "admin_status" -> "/admin/api-keys/{key_name}/status"

excluded_paths == {"/", "/health"}

\* extract_api_key_from_request taking what follows the first space, whatever
\* the scheme
extract_api_key_AnyScheme(auth_header) ==
    IF auth_header = EmptyStr THEN EmptyStr
    ELSE LET h == Strip(auth_header)
             i == IndexOf(h, " ")
         IN  IF i = 0 THEN EmptyStr ELSE Strip(SliceFrom(h, i))

\* extract_api_key_from_request; None and "" are both EmptyStr
extract_api_key_from_request(auth_header) ==
    IF auth_header = EmptyStr THEN EmptyStr
    ELSE LET h == Strip(auth_header)
         IN  IF ~StartsWith(h, BEARER) THEN EmptyStr
             ELSE Strip(SliceFrom(h, 7))

\* validate_admin_key without the name test: any active registry key is granted
validate_admin_key_AnyActive(R, api_key, admin_secret) ==
    IF api_key = EmptyStr THEN FALSE
    ELSE LET key_info == get_key_info(R, api_key)
         IN  \/ (key_info # NoRecord /\ key_info.is_active)
             \/ (admin_secret # EmptyStr /\ api_key = admin_secret)

\* validate_admin_key without the is_active test
validate_admin_key_IgnoresActive(R, api_key, admin_secret) ==
    IF api_key = EmptyStr THEN FALSE
    ELSE LET key_info == get_key_info(R, api_key)
         IN  \/ (key_info # NoRecord /\ key_info.name = ADMIN_NAME)
             \/ (admin_secret # EmptyStr /\ api_key = admin_secret)

\* validate_admin_key
validate_admin_key(R, api_key, admin_secret) ==
    IF api_key = EmptyStr THEN FALSE
    ELSE LET key_info == get_key_info(R, api_key)
         IN  \/ (key_info # NoRecord /\ key_info.name = ADMIN_NAME /\ key_info.is_active)
             \/ (admin_secret # EmptyStr /\ api_key = admin_secret)

\* a request: where it is, what it asked, what the middleware attached to it
\* (request.state.api_key, EmptyStr when never set), the response status, and
\* whether the route handler has run
Request(pc, route, header, api_key, status, ran) ==
    [pc |-> pc, route |-> route, header |-> header, api_key |-> api_key,
     status |-> status, ran |-> ran]

\* the checks of dispatch with the header demanded before DISABLE_AUTH is read
GateDecision_HeaderFirst(path, disable_auth, api_key) ==
    IF path \in excluded_paths THEN "bypass"
    ELSE IF api_key = EmptyStr THEN "missing"
    ELSE IF disable_auth THEN "disabled"
    ELSE "validate"

\* APIKeyMiddleware.dispatch, the order of its checks: what the middleware does
\* with a request, given the key extracted from its header
GateDecision(path, disable_auth, api_key) ==
    IF path \in excluded_paths THEN "bypass"
    ELSE IF disable_auth THEN "disabled"
    ELSE IF api_key = EmptyStr THEN "missing"
    ELSE "validate"

\* APIKeyMiddleware.dispatch, up to call_next, for a new request of client c
Dispatch(c, route, header) ==
    /\ req[c].pc \in {"idle", "done"}
    /\ \E api_key \in {extract_api_key_from_request(header)} :
       \E decision \in {GateDecision(Path(route), DISABLE_AUTH, api_key)} :
          CASE decision = "bypass" ->
                 /\ req' = [req EXCEPT ![c] = Request("admitted", route, header, EmptyStr, 0, FALSE)]
                 /\ UNCHANGED <<regVars, last>>
            [] decision = "disabled" ->
                 /\ req' = [req EXCEPT ![c] = Request("admitted", route, header, DISABLED, 0, FALSE)]
                 /\ UNCHANGED <<regVars, last>>
            [] decision = "missing" ->
                 /\ req' = [req EXCEPT ![c] = Request("done", route, header, EmptyStr, 401, FALSE)]
                 /\ UNCHANGED <<regVars, last>>
            [] decision = "validate" ->
                 \E fail \in (IF should_reload(CurrentReg, file)
                              THEN FailPoints(file) ELSE {NoFail}) :
                 \E res \in {validate_key(CurrentReg, file, api_key, fail, now)} :
                    /\ \A i \in 1..Len(res.reg.api_keys) :
                          res.reg.api_keys[i].usage_count <= MaxUsage
                    /\ SetReg(res.reg)
                    /\ last' = Called("validate", api_key, res.ret, res.reloaded)
                    /\ req' = [req EXCEPT ![c] =
                                 IF res.ret
                                 THEN Request("admitted", route, header, api_key, 0, FALSE)
                                 ELSE Request("done", route, header, EmptyStr, 401, FALSE)]
    /\ UNCHANGED <<file, now, cfgVars, chat, thr, deactivated>>

\* the route handler, from its start to its first await or its response
Handle(c) ==
    /\ req[c].pc = "admitted"
    /\ LET r == req[c]
       IN  IF r.route \notin AdminRoutes
           THEN /\ req' = [req EXCEPT ![c] = [r EXCEPT !.pc = "done", !.status = 200, !.ran = TRUE]]
                /\ UNCHANGED <<regVars, last>>
           ELSE IF ~validate_admin_key(CurrentReg, r.api_key, ADMIN_API_KEY)
           THEN /\ req' = [req EXCEPT ![c] = [r EXCEPT !.pc = "done", !.status = 403, !.ran = TRUE]]
                /\ UNCHANGED <<regVars, last>>
           ELSE CASE r.route = "admin_list" ->
                       /\ req' = [req EXCEPT ![c] = [r EXCEPT !.pc = "done", !.status = 200, !.ran = TRUE]]
                       /\ UNCHANGED <<regVars, last>>
                  [] r.route = "admin_reload" ->
                       \E fail \in FailPoints(file) :
                          \E res \in {load_keys(CurrentReg, file, fail, now)} :
                              /\ SetReg(res.reg)
                              /\ last' = Called("load", EmptyStr, res.ret, TRUE)
                              /\ req' = [req EXCEPT ![c] =
                                           [r EXCEPT !.pc = "done", !.ran = TRUE,
                                                     !.status = IF res.ret THEN 200 ELSE 500]]
                  [] r.route \in {"admin_create", "admin_status"} ->
                       /\ req' = [req EXCEPT ![c] = [r EXCEPT !.pc = "body", !.ran = TRUE]]
                       /\ UNCHANGED <<regVars, last>>
    /\ UNCHANGED <<file, now, cfgVars, chat, thr, deactivated>>

\* update_key_status: the first secret, in insertion order, whose record has the name
TargetKey(t, key_name) ==
    IF \E i \in 1..Len(t) : t[i].name = key_name
    THEN t[CHOOSE i \in 1..Len(t) :
              t[i].name = key_name /\ \A j \in 1..(i-1) : t[j].name # key_name].key
    ELSE EmptyStr

\* update_key_status, after the body has arrived; is_active is "none" when the
\* body has no such field
HandleStatusBody(c) ==
    /\ req[c].pc = "body"
    /\ req[c].route = "admin_status"
    /\ \E key_name \in {ADMIN_NAME, NameU}, is_active \in {"none", "true", "false"} :
          LET r == req[c]
              target_key == TargetKey(api_keys, key_name)
          IN  IF is_active = "none"
              THEN /\ req' = [req EXCEPT ![c] = [r EXCEPT !.pc = "done", !.status = 400]]
                   /\ UNCHANGED <<regVars, last, deactivated>>
              ELSE IF target_key = EmptyStr
              THEN /\ req' = [req EXCEPT ![c] = [r EXCEPT !.pc = "done", !.status = 404]]
                   /\ UNCHANGED <<regVars, last, deactivated>>
              ELSE \E res \in {IF is_active = "true"
                                 THEN activate_key(CurrentReg, target_key)
                                 ELSE deactivate_key(CurrentReg, target_key)} :
                       /\ SetReg(res.reg)
                       /\ last' = Called(IF is_active = "true" THEN "activate" ELSE "deactivate",
                                         target_key, res.ret, FALSE)
                       /\ deactivated' = IF is_active = "true"
                                         THEN deactivated \ {target_key}
                                         ELSE IF res.ret THEN deactivated \cup {target_key}
                                         ELSE deactivated
                       /\ req' = [req EXCEPT ![c] =
                                    [r EXCEPT !.pc = "done",
                                              !.status = IF res.ret THEN 200 ELSE 500]]
    /\ UNCHANGED <<file, now, cfgVars, chat, thr>>

\* the names a create request may carry; EmptyStr is a body without a name
NameV == <<"v">>
CreateNames == {EmptyStr, NameU, NameV}

\* the secrets create_key generates for create requests
KeyM == <<"s", "k", "-", "m">>
RouteKeys == {KeyN, KeyM}

\* the name test of create_api_key made on the secrets instead of the records
existing_names_Keys(t) == { t[i].key : i \in 1..Len(t) }

\* create_api_key: the names of the records of the registry
existing_names(t) == { t[i].name : i \in 1..Len(t) }

\* create_api_key, after the body has arrived
HandleCreateBody(c) ==
    /\ req[c].pc = "body"
    /\ req[c].route = "admin_create"
    /\ \E key_name \in CreateNames :
          LET r == req[c]
          IN  IF key_name = EmptyStr \/ key_name \in existing_names(api_keys)
              THEN /\ req' = [req EXCEPT ![c] = [r EXCEPT !.pc = "done", !.status = 400]]
                   /\ UNCHANGED <<regVars, last>>
              ELSE \E new_key \in RouteKeys \ Keys(api_keys) :
                       /\ SetReg(create_key(CurrentReg, new_key, key_name, EmptyStr))
                       /\ last' = Called("create", new_key, TRUE, FALSE)
                       /\ req' = [req EXCEPT ![c] = [r EXCEPT !.pc = "done", !.status = 200]]
    /\ UNCHANGED <<file, now, cfgVars, chat, thr, deactivated>>

\* the configurations of a deployment: DISABLE_AUTH and ADMIN_API_KEY
Configurations ==
    { <<FALSE, KeyX>>, <<FALSE, KeyB>>, <<TRUE, EmptyStr>>, <<TRUE, DISABLED>> }

\* the store of a deployment: an admin key and a user key
InitHttp ==
    /\ api_keys = <<>>
    /\ active_keys = {}
    /\ last_reload_time = 0
    /\ now = StartTime
    /\ file = [exists |-> TRUE, lines |-> <<LineComment, LineAdmin, LineUser>>,
               mtime |-> StartTime - 1]
    /\ req = [c \in Clients |-> IdleReq]
    /\ deactivated = {}
    /\ last = [op |-> "none", key |-> EmptyStr, ret |-> FALSE, reloaded |-> FALSE]
    /\ chat = IdleChat
    /\ thr = [t \in Threads |-> IdleThread]
    /\ \E cfg \in Configurations :
          DISABLE_AUTH = cfg[1] /\ ADMIN_API_KEY = cfg[2]

\* the gate: one client sending any request
NextGate ==
    \/ \E route \in Routes \ {"admin_create"}, header \in Headers :
          Dispatch("c1", route, header)
    \/ Handle("c1")
    \/ HandleStatusBody("c1")

SpecGate == InitHttp /\ [][NextGate]_vars

\* the admin routes requested with registered keys by one client
NextRoutes ==
    \/ \E route \in AdminRoutes, header \in HeadersOf("c1") : Dispatch("c1", route, header)
    \/ Handle("c1")
    \/ HandleStatusBody("c1")
    \/ HandleCreateBody("c1")

SpecRoutes == InitHttp /\ [][NextRoutes]_vars

\* create requests of two clients, suspended only at their body read
NextCreate ==
    \/ \E c \in Clients : \E header \in HeadersOf(c) : Dispatch(c, "admin_create", header)
    \/ \E c \in Clients : Handle(c)
    \/ \E c \in Clients : HandleCreateBody(c)

SpecCreate == InitHttp /\ [][NextCreate]_vars

\* the admin routes: two clients with registered keys
NextAdmin ==
    \/ \E c \in Clients : \E route \in RoutesOf(c), header \in HeadersOf(c) :
          Dispatch(c, route, header)
    \/ \E c \in Clients : Handle(c)
    \/ \E c \in Clients : HandleStatusBody(c)

SpecAdmin == InitHttp /\ [][NextAdmin]_vars

-----------------------------------------------------------------------------
(* The chat route: POST /v1/chat/completions *)

\* "data: [DONE]"
DoneEvent == Event(TRUE, "", <<"[", "D", "O", "N", "E", "]">>, "")

\* the i-th content unit of an upstream sequence: i characters of text
Unit(i) == Event(FALSE, "assistant", [j \in 1..i |-> "x"], "")

\* how an upstream call ends: normally, or raising APIError, EmptyResponseError
\* or another exception
Endings == {"complete", "APIError", "EmptyResponseError", "Exception"}

\* vertex_client.stream_chat: the units an upstream sequence yields before it
\* ends; a sequence that completes normally closes with the sentinel event
stream_chat(n, ending) ==
    [i \in 1..n |-> Unit(i)] \o (IF ending = "complete" THEN <<DoneEvent>> ELSE <<>>)

\* the chunk of the synthesized stream of a request without messages
empty_chunk == Event(FALSE, "assistant", EmptyStr, "stop")

\* empty_stream_generator without its last yield
empty_stream_generator_NoSentinel == <<empty_chunk>>

\* empty_stream_generator: the events it yields
empty_stream_generator == <<empty_chunk, DoneEvent>>

\* vertex_client.complete_chat: the object of an upstream completion of n
\* characters
complete_chat(n) ==
    Completion(1, n, n + 1, <<Event(FALSE, "assistant", [j \in 1..n |-> "x"], "stop")>>)

\* the object returned for a request without messages and stream = false
empty_completion == Completion(0, 0, 0, <<Event(FALSE, "assistant", EmptyStr, "stop")>>)

\* chat_completions sending every request upstream
ChatPath_AlwaysUpstream(has_messages, stream) ==
    IF stream THEN "stream" ELSE "complete"

\* chat_completions, the branch taken once the body is parsed
ChatPath(has_messages, stream) ==
    IF ~has_messages
    THEN IF stream THEN "empty_stream" ELSE "empty_object"
    ELSE IF stream THEN "stream" ELSE "complete"

\* the status of the failure response for an exception of the non-streaming
\* upstream call: neither is an HTTPException, both reach `except Exception`
complete_chat_status(ending) ==
    IF ending = "complete" THEN 200 ELSE 500

\* the HTTPException raised inside stream_with_disconnect_check for an
\* exception of the upstream sequence; 0 when the exception passes unchanged
stream_raise(ending) ==
    CASE ending = "APIError" -> 500
      [] ending = "EmptyResponseError" -> 505
      [] OTHER -> 0

\* a new chat-completion request arrives at the handler
ChatRequest ==
    /\ chat.pc = "idle"
    /\ \E has_messages \in BOOLEAN, stream \in BOOLEAN, n \in 0..MaxUnits, ending \in Endings :
          chat' = [IdleChat EXCEPT !.pc = "body", !.has_messages = has_messages,
                                   !.stream = stream, !.n = n, !.ending = ending,
                                   !.state = IF stream THEN "OPEN" ELSE "NONE"]
    /\ UNCHANGED <<regVars, file, now, cfgVars, req, last, deactivated, thr>>

\* chat_completions from the parsed body to its return or its upstream await; a
\* returned StreamingResponse starts the response (status 200 and the headers)
\* before the first event is taken from its generator
ChatHandle ==
    /\ chat.pc = "body"
    /\ \E path \in {ChatPath(chat.has_messages, chat.stream)} :
          chat' = CASE path = "empty_stream" ->
                         [chat EXCEPT !.pc = "empty", !.status = 200, !.state = "STREAMING"]
                    [] path = "empty_object" ->
                         [chat EXCEPT !.pc = "closed", !.status = 200, !.object = empty_completion]
                    [] path = "stream" ->
                         [chat EXCEPT !.pc = "pull", !.status = 200, !.state = "STREAMING"]
                    [] path = "complete" ->
                         [chat EXCEPT !.pc = "await_complete", !.contacted = TRUE]
    /\ UNCHANGED <<regVars, file, now, cfgVars, req, last, deactivated, thr>>

\* empty_stream_generator: one event at a time, then the end of the stream
EmptyStream ==
    /\ chat.pc = "empty"
    /\ chat' = IF chat.pos < Len(empty_stream_generator)
               THEN [chat EXCEPT !.pos = @ + 1,
                                 !.out = Append(@, empty_stream_generator[chat.pos + 1])]
               ELSE [chat EXCEPT !.pc = "closed", !.state = "COMPLETED"]
    /\ UNCHANGED <<regVars, file, now, cfgVars, req, last, deactivated, thr>>

\* stream_with_disconnect_check when the upstream sequence has no further
\* unit: the loop ends, or the exception is raised inside the generator
stream_end(ch) ==
    IF ch.ending = "complete"
    THEN [ch EXCEPT !.pc = "closed", !.state = "COMPLETED"]
    ELSE [ch EXCEPT !.pc = "closed", !.state = "UPSTREAM_ERROR",
                    !.raised = stream_raise(ch.ending)]

\* the disconnect check forwarding whatever the sample says
stream_sample_Ignored(ch, disconnected) ==
    [ch EXCEPT !.samples = @ + 1, !.pc = "forward"]

\* stream_with_disconnect_check after `await request.is_disconnected()`
stream_sample(ch, disconnected) ==
    IF disconnected
    THEN [ch EXCEPT !.samples = @ + 1, !.pc = "closed", !.state = "CLIENT_DISCONNECTED"]
    ELSE [ch EXCEPT !.samples = @ + 1, !.pc = "forward"]

\* CancelledError caught and turned into the end of the stream
stream_cancel_Swallowed(ch) ==
    [ch EXCEPT !.pc = "closed", !.state = "COMPLETED"]

\* stream_with_disconnect_check on asyncio.CancelledError: re-raised
stream_cancel(ch) ==
    [ch EXCEPT !.pc = "closed", !.state = "CANCELLED"]

\* the positions at which a streamed response is suspended
Suspended == {"pull", "sample", "forward", "empty"}

\* async for chunk in vertex_client.stream_chat(...): the next unit, or the end
Pull ==
    /\ chat.pc = "pull"
    /\ \E units \in {stream_chat(chat.n, chat.ending)} :
          chat' = IF chat.pos < Len(units)
                  THEN [chat EXCEPT !.contacted = TRUE, !.pos = @ + 1,
                                    !.chunk = units[chat.pos + 1], !.pc = "sample"]
                  ELSE [stream_end(chat) EXCEPT !.contacted = TRUE]
    /\ UNCHANGED <<regVars, file, now, cfgVars, req, last, deactivated, thr>>

\* if await request.is_disconnected(): break
Sample ==
    /\ chat.pc = "sample"
    /\ chat' = stream_sample(chat, chat.disconnected)
    /\ UNCHANGED <<regVars, file, now, cfgVars, req, last, deactivated, thr>>

\* yield chunk
Forward ==
    /\ chat.pc = "forward"
    /\ chat' = [chat EXCEPT !.out = Append(@, chat.chunk), !.pc = "pull"]
    /\ UNCHANGED <<regVars, file, now, cfgVars, req, last, deactivated, thr>>

\* the client drops the connection while the response is streamed
ClientDisconnect ==
    /\ chat.pc \in Suspended
    /\ ~chat.disconnected
    /\ chat' = [chat EXCEPT !.disconnected = TRUE]
    /\ UNCHANGED <<regVars, file, now, cfgVars, req, last, deactivated, thr>>

\* the task streaming the response is cancelled at one of its suspension points
Cancel ==
    /\ chat.pc \in Suspended
    /\ chat' = [(IF chat.pc = "empty"
                 THEN [chat EXCEPT !.pc = "closed", !.state = "CANCELLED"]
                 ELSE stream_cancel(chat)) EXCEPT !.cancelled = TRUE]
    /\ UNCHANGED <<regVars, file, now, cfgVars, req, last, deactivated, thr>>

\* await vertex_client.complete_chat(...): its object, or the failure response
CompleteChat ==
    /\ chat.pc = "await_complete"
    /\ chat' = [chat EXCEPT !.pc = "closed",
                            !.status = complete_chat_status(chat.ending),
                            !.object = IF chat.ending = "complete"
                                       THEN complete_chat(chat.n) ELSE NoObject]
    /\ UNCHANGED <<regVars, file, now, cfgVars, req, last, deactivated, thr>>

\* the response is over and the next request may come
ChatClose ==
    /\ chat.pc = "closed"
    /\ chat' = IdleChat
    /\ UNCHANGED <<regVars, file, now, cfgVars, req, last, deactivated, thr>>

NextChat ==
    \/ ChatRequest \/ ChatHandle \/ EmptyStream
    \/ Pull \/ Sample \/ Forward
    \/ ClientDisconnect \/ Cancel
    \/ CompleteChat \/ ChatClose

SpecChat == InitHttp /\ [][NextChat]_vars

-----------------------------------------------------------------------------
(* validate_key called from several threads; the store stays readable and   *)
(* is not modified. A section run under self._lock is one step: every       *)
(* access to api_keys and active_keys is made under the lock.               *)

\* the keys the threads present
ThreadKeys == {KeyA, KeyB, KeyX}

\* a thread enters validate_key with a non-empty key and strips it
ThreadCall(t) ==
    /\ thr[t].pc = "idle"
    /\ \E raw \in ThreadKeys :
          thr' = [thr EXCEPT ![t] = [pc |-> "check", api_key |-> Strip(raw), ret |-> FALSE]]
    /\ UNCHANGED <<regVars, file, now, cfgVars, req, last, deactivated, chat>>

\* if self._should_reload(): read without the lock
ThreadCheck(t) ==
    /\ thr[t].pc = "check"
    /\ thr' = [thr EXCEPT ![t].pc = IF should_reload(CurrentReg, file) THEN "load" ELSE "lookup"]
    /\ UNCHANGED <<regVars, file, now, cfgVars, req, last, deactivated, chat>>

\* load_keys up to the end of its `with self._lock` block: the table is
\* cleared and filled from the store; a missing store returns at once
ThreadLoad(t) ==
    /\ thr[t].pc = "load"
    /\ IF ~file.exists
       THEN /\ thr' = [thr EXCEPT ![t].pc = "lookup"]
            /\ UNCHANGED regVars
       ELSE \E res \in {load_keys(CurrentReg, file, NoFail, now)} :
               /\ api_keys' = res.reg.api_keys
               /\ active_keys' = res.reg.active_keys
               /\ UNCHANGED last_reload_time
               /\ thr' = [thr EXCEPT ![t].pc = "stamp"]
    /\ UNCHANGED <<file, now, cfgVars, req, last, deactivated, chat>>

\* load_keys: self.last_reload_time = time.time(), after the lock is released
ThreadStamp(t) ==
    /\ thr[t].pc = "stamp"
    /\ last_reload_time' = now
    /\ thr' = [thr EXCEPT ![t].pc = "lookup"]
    /\ UNCHANGED <<api_keys, active_keys, file, now, cfgVars, req, last, deactivated, chat>>

\* validate_key: the lookup and the counter update under the lock, and the return
ThreadLookup(t) ==
    /\ thr[t].pc = "lookup"
    /\ \E res \in {ValidateLookup(CurrentReg, thr[t].api_key, now)} :
          /\ SetReg(res.reg)
          /\ thr' = [thr EXCEPT ![t].pc = "done", ![t].ret = res.ret]
    /\ UNCHANGED <<file, now, cfgVars, req, last, deactivated, chat>>

NextThreads ==
    \/ Tick
    \/ \E t \in Threads : ThreadCall(t)
    \/ \E t \in Threads : ThreadCheck(t)
    \/ \E t \in Threads : ThreadLoad(t)
    \/ \E t \in Threads : ThreadStamp(t)
    \/ \E t \in Threads : ThreadLookup(t)

SpecThreads == Init /\ [][NextThreads]_vars

\* validate_key calls while an operator rewrites the store
NextReload == NextThreads \/ StoreWrite

SpecReload == Init /\ [][NextReload]_vars

-----------------------------------------------------------------------------
(* Reading a step: which registry call it was *)

\* the step is a call of validate_key (with argument last'.key)
ValidateStep ==
    last'.op = "validate" /\ (last' # last \/ regVars' # regVars)

\* the step is a direct call of load_keys
LoadStep ==
    last'.op = "load" /\ (last' # last \/ regVars' # regVars)

\* the store is newer than the last recorded load
Stale == file.exists /\ file.mtime > last_reload_time

ActiveSecrets(t) == { t[i].key : i \in { j \in 1..Len(t) : t[j].is_active } }

\* the secrets found on the lines of the store that carry a record
StoreSecrets(f) ==
    { ParseLine(f.lines[i]).key : i \in { j \in 1..Len(f.lines) : ParseLine(f.lines[j]).ok } }

-----------------------------------------------------------------------------
(* C1: in every state the active-set index active_keys is exactly the set  *)
(* of secrets whose record has is_active = TRUE.                            *)

C1_ActiveIndexConsistent == active_keys = ActiveSecrets(api_keys)

\* a registry holding an active and a deactivated record
C1_Witness ==
    /\ Len(api_keys) >= 2
    /\ \E i \in 1..Len(api_keys) : ~api_keys[i].is_active
    /\ active_keys # {}

-----------------------------------------------------------------------------
(* C2, as stated: whenever validate is called with a key that is present   *)
(* and active, it returns true, usage_count grows by exactly one and        *)
(* last_used does not go back, also when the store is newer than            *)
(* last_reload_time.                                                        *)

C2_Original ==
    [][ (/\ ValidateStep
         /\ Strip(last'.key) \in Keys(api_keys)
         /\ Get(api_keys, Strip(last'.key)).is_active)
        => (/\ last'.ret
            /\ Get(api_keys', Strip(last'.key)).usage_count
                 = Get(api_keys, Strip(last'.key)).usage_count + 1
            /\ Get(api_keys', Strip(last'.key)).last_used
                 >= Get(api_keys, Strip(last'.key)).last_used) ]_vars

(* C2, amended: for a key present and active at the call, when the store   *)
(* is missing or not newer than last_reload_time, validate returns true,    *)
(* usage_count grows by exactly one and last_used does not go back; when    *)
(* the store is newer, validate reloads first, returns true exactly when    *)
(* the key is in the reloaded table, and usage_count is then 1.             *)

C2_ValidateCountsOnce ==
    [][ (/\ ValidateStep
         /\ Strip(last'.key) \in Keys(api_keys)
         /\ Get(api_keys, Strip(last'.key)).is_active)
        => LET k    == Strip(last'.key)
               pre  == Get(api_keys, k)
               post == Get(api_keys', k)
           IN  IF ~Stale
               THEN /\ last'.ret
                    /\ post.usage_count = pre.usage_count + 1
                    /\ post.last_used >= pre.last_used
                    /\ post.last_used = IntTime(now)
               ELSE /\ last'.ret <=> k \in Keys(api_keys')
                    /\ last'.ret => post.usage_count = 1 /\ post.last_used = IntTime(now) ]_vars

\* a second accepted validate of the same key with no reload in between
C2_Witness ==
    /\ last.op = "validate" /\ last.ret /\ ~last.reloaded
    /\ Get(api_keys, Strip(last.key)).usage_count = 2
    /\ Get(api_keys, Strip(last.key)).last_used = IntTime(now)

-----------------------------------------------------------------------------
(* C3, as stated: whenever validate is called with a key that is unknown   *)
(* or inactive, it returns false and leaves every record unchanged, also    *)
(* when the store is newer than last_reload_time.                           *)

C3_Original ==
    [][ (/\ ValidateStep
         /\ ~(/\ Strip(last'.key) \in Keys(api_keys)
              /\ Get(api_keys, Strip(last'.key)).is_active))
        => (~last'.ret /\ api_keys' = api_keys) ]_vars

(* C3, amended: for a key unknown or inactive at the call, when the store  *)
(* is missing or not newer than last_reload_time, validate returns false    *)
(* and leaves the registry unchanged; when the store is newer, validate     *)
(* reloads first and returns true exactly when the key is in the reloaded   *)
(* table.                                                                   *)

C3_RejectWithoutEffect ==
    [][ (/\ ValidateStep
         /\ ~(/\ Strip(last'.key) \in Keys(api_keys)
              /\ Get(api_keys, Strip(last'.key)).is_active))
        => IF ~Stale \/ last'.key = EmptyStr
           THEN ~last'.ret /\ regVars' = regVars
           ELSE last'.ret <=> Strip(last'.key) \in Keys(api_keys') ]_vars

\* a deactivated key was rejected by a validate that did not reload
C3_Witness ==
    /\ last.op = "validate" /\ ~last.ret /\ ~last.reloaded
    /\ Strip(last.key) \in Keys(api_keys)
    /\ ~Get(api_keys, Strip(last.key)).is_active

-----------------------------------------------------------------------------
(* C4, as stated: once deactivate(secret) has succeeded, every validate of *)
(* that secret returns false until activate(secret) is called, whatever     *)
(* saves, store changes and hot reloads happen in between.                  *)

C4_Original ==
    (last.op = "validate" /\ Strip(last.key) \in deactivated) => ~last.ret

-----------------------------------------------------------------------------
(* C5: validate reloads only when the store's modification time is         *)
(* strictly greater than last_reload_time; a successful load leaves the     *)
(* store not newer than last_reload_time, it stays so while the store is    *)
(* unchanged, and a validate that does not reload leaves the set of records *)
(* and last_reload_time unchanged.                                          *)

C5_ReloadOnlyWhenNewer ==
    [][ /\ ValidateStep => (last'.reloaded <=> (Stale /\ last'.key # EmptyStr))
        /\ (ValidateStep /\ ~last'.reloaded)
              => (/\ Keys(api_keys') = Keys(api_keys)
                  /\ Len(api_keys') = Len(api_keys)
                  /\ last_reload_time' = last_reload_time)
        /\ (LoadStep /\ last'.ret) => ~Stale'
        /\ (file' = file /\ ~Stale) => ~Stale' ]_vars

\* a validate after a successful load of an unchanged store did not reload
C5_Witness ==
    /\ last.op = "validate" /\ ~last.reloaded /\ last.key # EmptyStr
    /\ file.exists /\ last_reload_time >= file.mtime

-----------------------------------------------------------------------------
(* C6, as stated: whenever load returns failure, the table, the active-set *)
(* index and last_reload_time are what they were before the call.           *)

C6_Original ==
    [][ (LoadStep /\ ~last'.ret) => regVars' = regVars ]_vars

-----------------------------------------------------------------------------
(* C7: after a successful load the table holds exactly one record per      *)
(* distinct prefix-carrying secret of the store's record lines and nothing  *)
(* else, and every record is active with usage_count 0 and last_used 0.     *)

C7_LoadReplaces ==
    [][ (LoadStep /\ last'.ret)
        => (/\ Keys(api_keys') = StoreSecrets(file)
            /\ Len(api_keys') = Cardinality(StoreSecrets(file))
            /\ \A i \in 1..Len(api_keys') :
                  /\ api_keys'[i].is_active
                  /\ api_keys'[i].usage_count = 0
                  /\ api_keys'[i].last_used = 0
                  /\ StartsWith(api_keys'[i].key, PREFIX)
            /\ active_keys' = StoreSecrets(file)
            /\ last_reload_time' = now) ]_vars

\* a successful load of a store with a line that carries no record
C7_Witness ==
    /\ last.op = "load" /\ last.ret
    /\ file.exists /\ last_reload_time >= file.mtime
    /\ Keys(api_keys) = StoreSecrets(file)
    /\ Len(api_keys) >= 1
    /\ Len(file.lines) > Len(api_keys)

-----------------------------------------------------------------------------
(* Reading a step: what happened to a request *)

\* the middleware took a new request of client c
DispatchStep(c) == req'[c] # req[c] /\ ~req'[c].ran

\* the route handler of the request of client c started
HandlerStep(c) == req'[c].ran /\ ~req[c].ran

-----------------------------------------------------------------------------
(* C8: with authentication enabled and a path outside the bypass list, a   *)
(* request is admitted to its route handler only if its Authorization       *)
(* header, trimmed, starts with "Bearer " and validate accepted the trimmed *)
(* remainder; otherwise it is answered 401 and the handler never runs.      *)

C8_GateAdmitsOnlyValidated ==
    [][ \A c \in Clients :
          /\ (DispatchStep(c) /\ ~DISABLE_AUTH /\ Path(req'[c].route) \notin excluded_paths)
               => \A h \in {Strip(req'[c].header)} :
                  \A key \in {Strip(SliceFrom(h, 7))} :
                      IF StartsWith(h, BEARER)
                      THEN /\ last'.op = "validate" /\ last'.key = key
                           /\ IF last'.ret
                              THEN /\ req'[c].pc = "admitted" /\ req'[c].api_key = key
                                   /\ key \in active_keys'
                              ELSE req'[c].pc = "done" /\ req'[c].status = 401
                      ELSE /\ req'[c].pc = "done" /\ req'[c].status = 401
                           /\ regVars' = regVars /\ last' = last
          /\ HandlerStep(c) => req[c].pc = "admitted"
          /\ req'[c].status = 401 => ~req'[c].ran ]_vars

\* the handler ran for a request whose padded Bearer header carried a valid key
C8_Witness ==
    /\ ~DISABLE_AUTH
    /\ req["c1"].ran /\ req["c1"].status = 200
    /\ req["c1"].route = "models"
    /\ req["c1"].header = HeaderPadded /\ req["c1"].api_key = KeyA

-----------------------------------------------------------------------------
(* C9, as stated: with the disable flag set, every request is admitted and  *)
(* tagged with the disabled-auth sentinel, and the gate does no registry    *)
(* lookup.                                                                  *)

C9_Original ==
    [][ \A c \in Clients :
          (DispatchStep(c) /\ DISABLE_AUTH)
             => (/\ req'[c].pc = "admitted" /\ req'[c].api_key = DISABLED
                 /\ regVars' = regVars /\ last' = last) ]_vars

(* C9, amended: with the disable flag set, every request to a path outside  *)
(* the bypass list is admitted and tagged with the disabled-auth sentinel;  *)
(* a request to a bypass path is admitted untagged; in both cases the gate  *)
(* does no registry lookup.                                                 *)

C9_DisabledAuthAdmitsAll ==
    [][ \A c \in Clients :
          (DispatchStep(c) /\ DISABLE_AUTH)
             => (/\ req'[c].pc = "admitted"
                 /\ req'[c].api_key = IF Path(req'[c].route) \in excluded_paths
                                      THEN EmptyStr ELSE DISABLED
                 /\ regVars' = regVars /\ last' = last) ]_vars

\* a request without a header was admitted with the sentinel, the store being
\* newer than the registry, and nothing was loaded
C9_Witness ==
    /\ DISABLE_AUTH
    /\ req["c1"].pc = "admitted" /\ req["c1"].api_key = DISABLED
    /\ req["c1"].header = EmptyStr /\ req["c1"].route = "models"
    /\ Stale /\ api_keys = <<>> /\ last.op = "none"

-----------------------------------------------------------------------------
(* C10: the admin check grants a resolved secret exactly when its registry  *)
(* record is named admin_key and is active at the moment of the check, or   *)
(* the secret equals the configured administrative secret; an admin-named   *)
(* key deactivated after its request was admitted is denied.                *)

NamedAdminActive(t, k) ==
    \E i \in 1..Len(t) : t[i].key = k /\ t[i].name = ADMIN_NAME /\ t[i].is_active

C10_AdminIffNamedActiveOrSecret ==
    [][ \A c \in Clients :
          (HandlerStep(c) /\ req[c].route \in AdminRoutes)
             => ((req'[c].status # 403)
                   <=> (\/ NamedAdminActive(api_keys, req[c].api_key)
                        \/ (ADMIN_API_KEY # EmptyStr /\ req[c].api_key = ADMIN_API_KEY))) ]_vars

\* a request admitted with the admin-named key was denied by the admin check
\* because the key had been deactivated in between
C10_Witness ==
    \E c \in Clients :
       /\ req[c].route \in AdminRoutes /\ req[c].ran /\ req[c].status = 403
       /\ req[c].api_key = KeyA
       /\ Get(api_keys, KeyA).name = ADMIN_NAME
       /\ ~Get(api_keys, KeyA).is_active

-----------------------------------------------------------------------------
(* C11, as stated: with authentication disabled, a request admitted with    *)
(* the disabled-auth sentinel is never granted admin access, whatever the   *)
(* configured administrative secret: the admin check of an admin key route  *)
(* answers it 403.                                                          *)

C11_Original ==
    \A c \in Clients :
       (/\ DISABLE_AUTH
        /\ req[c].route \in AdminRoutes
        /\ req[c].api_key = DISABLED
        /\ req[c].ran)
          => req[c].status = 403

-----------------------------------------------------------------------------
(* C12, as stated: with authentication enabled, a request to an admin key   *)
(* route whose Authorization header is "Bearer " followed by the configured *)
(* administrative secret is granted admin access and its operation runs,    *)
(* also when that secret is not in the registry.                            *)

C12_Original ==
    \A c \in Clients :
       (/\ ~DISABLE_AUTH
        /\ ADMIN_API_KEY # EmptyStr
        /\ req[c].route \in AdminRoutes
        /\ req[c].pc = "done"
        /\ extract_api_key_from_request(req[c].header) = ADMIN_API_KEY)
          => (req[c].ran /\ req[c].status \notin {401, 403})

-----------------------------------------------------------------------------
(* C13, as stated: a request to an admin key route made with a valid        *)
(* non-admin key ends in 403 and no step of the request changes the         *)
(* registry: no record is created, activated, deactivated or reloaded and   *)
(* no usage_count or last_used changes.                                     *)

\* the key the gate resolved for the request of c is a registry key that the
\* admin check does not grant
NonAdminKey(t, k) ==
    /\ k \in Keys(t)
    /\ ~NamedAdminActive(t, k)
    /\ k # ADMIN_API_KEY

C13_Original ==
    [][ \A c \in Clients :
          /\ (/\ DispatchStep(c) /\ ~DISABLE_AUTH
              /\ req'[c].route \in AdminRoutes /\ req'[c].pc = "admitted"
              /\ NonAdminKey(api_keys', req'[c].api_key))
                => regVars' = regVars
          /\ (/\ HandlerStep(c) /\ ~DISABLE_AUTH
              /\ req[c].route \in AdminRoutes
              /\ NonAdminKey(api_keys, req[c].api_key))
                => (req'[c].status = 403 /\ regVars' = regVars) ]_vars

(* C13, amended: a request to an admin key route made with a valid          *)
(* non-admin key ends in 403 and its route handler changes nothing in the   *)
(* registry; the only changes the request makes are those of the gate's     *)
(* validate call before the handler: after a hot reload when the store is   *)
(* newer, the usage_count of the requesting key grows by one and its        *)
(* last_used is set, every other record staying as it is.                   *)

C13_DeniedBeforeAdminEffect ==
    [][ \A c \in Clients :
          /\ (/\ DispatchStep(c) /\ ~DISABLE_AUTH
              /\ req'[c].route \in AdminRoutes /\ req'[c].pc = "admitted"
              /\ NonAdminKey(api_keys', req'[c].api_key))
                => (/\ last'.op = "validate" /\ last'.ret
                    /\ last'.key = req'[c].api_key
                    /\ active_keys' = ActiveSecrets(api_keys')
                    /\ ~last'.reloaded
                         => (/\ Len(api_keys') = Len(api_keys)
                             /\ last_reload_time' = last_reload_time
                             /\ active_keys' = active_keys
                             /\ \A i \in 1..Len(api_keys) :
                                   IF api_keys[i].key = req'[c].api_key
                                   THEN api_keys'[i] =
                                          [api_keys[i] EXCEPT
                                              !.usage_count = @ + 1,
                                              !.last_used = IntTime(now)]
                                   ELSE api_keys'[i] = api_keys[i]))
          /\ (/\ HandlerStep(c) /\ ~DISABLE_AUTH
              /\ req[c].route \in AdminRoutes
              /\ NonAdminKey(api_keys, req[c].api_key))
                => (/\ req'[c].status = 403 /\ req'[c].pc = "done"
                    /\ regVars' = regVars /\ last' = last) ]_vars

\* a create request made with the user key was denied, the gate having counted
\* the key's use
C13_Witness ==
    /\ ~DISABLE_AUTH /\ ADMIN_API_KEY # KeyB
    /\ req["c1"].route = "admin_create" /\ req["c1"].api_key = KeyB
    /\ req["c1"].ran /\ req["c1"].status = 403
    /\ Get(api_keys, KeyB).usage_count = 2
    /\ KeyN \notin Keys(api_keys)

-----------------------------------------------------------------------------
(* Reading the chat request *)

\* the request is streamed from the upstream sequence
Streamed == chat.stream /\ chat.has_messages

\* the response of the request is over
Closed == chat.pc = "closed"

TerminalStates == {"COMPLETED", "CLIENT_DISCONNECTED", "UPSTREAM_ERROR", "CANCELLED"}

-----------------------------------------------------------------------------
(* C14: a streamed request whose upstream sequence yields n content units   *)
(* and completes normally, the client staying connected and nothing being   *)
(* cancelled, ends COMPLETED; a completed stream consists of exactly the n  *)
(* content events in order followed by the [DONE] sentinel, and of the one  *)
(* synthesized chunk followed by the sentinel for a request without         *)
(* messages: the sentinel is the last event.                                *)

-----------------------------------------------------------------------------
(* C15: in the streaming path the disconnect flag is sampled for every      *)
(* upstream unit before the unit is forwarded; a sample that finds the      *)
(* client gone ends the stream in CLIENT_DISCONNECTED with no further unit  *)
(* and no error, and what was forwarded is a prefix of the upstream         *)
(* sequence.                                                                *)

C15_SampleBeforeForward ==
    [][ Streamed
          => /\ (chat'.out # chat.out /\ chat'.pc # "idle")
                  => (/\ chat.pc = "forward" /\ chat.samples = chat.pos
                      /\ chat'.out = Append(chat.out, stream_chat(chat.n, chat.ending)[chat.pos])
                      /\ Len(chat'.out) = chat.pos)
             /\ (chat.pc = "sample" /\ chat'.samples = chat.samples + 1)
                  => IF chat.disconnected
                     THEN /\ chat'.state = "CLIENT_DISCONNECTED" /\ chat'.pc = "closed"
                          /\ chat'.out = chat.out /\ chat'.raised = 0
                          /\ chat'.status = chat.status
                          /\ chat'.out = SubSeq(stream_chat(chat.n, chat.ending), 1, chat.pos - 1)
                     ELSE chat'.pc = "forward" /\ chat'.state = "STREAMING"
             /\ (chat'.pc = "forward" /\ chat.pc # "forward")
                  => (chat.pc = "sample" /\ ~chat.disconnected)
             /\ chat'.state = "CLIENT_DISCONNECTED"
                  => (chat.pc = "sample" /\ chat.disconnected) \/ chat' = chat ]_vars

\* the client left after the first of two units: one event went out
C15_Witness ==
    /\ Closed /\ Streamed /\ chat.state = "CLIENT_DISCONNECTED"
    /\ chat.n = 2 /\ chat.out = <<Unit(1)>> /\ chat.samples = 2 /\ chat.raised = 0

-----------------------------------------------------------------------------
(* C16, as stated: when the upstream sequence of a streamed request raises  *)
(* before any unit was forwarded, the client gets a failure response with   *)
(* status 505 for an empty-response failure and 500 for a generic upstream  *)
(* failure, not a started 200 event stream; when it raises after content    *)
(* was sent, the status stays as it was and the stream ends.                *)

C16_Original ==
    (Closed /\ Streamed /\ chat.state = "UPSTREAM_ERROR")
       => IF chat.out = <<>>
          THEN /\ chat.ending = "EmptyResponseError" => chat.status = 505
               /\ chat.ending = "APIError" => chat.status = 500
          ELSE chat.status = 200

-----------------------------------------------------------------------------
(* C17, as stated: for a request with messages and stream = false, an       *)
(* upstream empty-response failure is answered 505 and a generic upstream   *)
(* failure 500.                                                             *)

C17_Original ==
    (Closed /\ chat.has_messages /\ ~chat.stream)
       => /\ chat.ending = "EmptyResponseError" => chat.status = 505
          /\ chat.ending = "APIError" => chat.status = 500

-----------------------------------------------------------------------------
(* C18: a request without messages never contacts the upstream backend;     *)
(* with stream = true its completed stream is exactly one content event     *)
(* (assistant role, empty content, finish_reason stop) followed by the      *)
(* [DONE] sentinel, and with stream = false the returned object has all     *)
(* usage fields zero and a single choice with finish_reason stop.           *)

C18_EmptyInputSynthesized ==
    (chat.pc # "idle" /\ ~chat.has_messages)
       => /\ ~chat.contacted
          /\ chat.pc \notin {"pull", "sample", "forward", "await_complete"}
          /\ (Closed /\ chat.stream /\ chat.state = "COMPLETED")
               => /\ chat.status = 200
                  /\ Len(chat.out) = 2
                  /\ chat.out[1] = Event(FALSE, "assistant", EmptyStr, "stop")
                  /\ chat.out[2] = DoneEvent
          /\ (Closed /\ ~chat.stream)
               => /\ chat.status = 200
                  /\ chat.object.usage =
                        [prompt_tokens |-> 0, completion_tokens |-> 0, total_tokens |-> 0]
                  /\ Len(chat.object.choices) = 1
                  /\ chat.object.choices[1].finish_reason = "stop"
                  /\ chat.object.choices[1].role = "assistant"
                  /\ chat.object.choices[1].content = EmptyStr

\* the synthesized stream of a request without messages was sent whole
C18_Witness ==
    /\ Closed /\ ~chat.has_messages /\ chat.stream
    /\ chat.state = "COMPLETED" /\ Len(chat.out) = 2 /\ ~chat.contacted

-----------------------------------------------------------------------------
(* C19: a cancellation received by a streaming request is re-raised: the    *)
(* stream ends in CANCELLED, with no HTTP error raised and no further       *)
(* event, never in COMPLETED, CLIENT_DISCONNECTED or UPSTREAM_ERROR; a      *)
(* streamed request that is over is in exactly one of the four terminal     *)
(* states, and one that is not over is in none of them.                     *)

C19_CancellationPropagates ==
    [][ /\ (chat'.cancelled /\ ~chat.cancelled)
             => (/\ chat'.state = "CANCELLED" /\ chat'.pc = "closed"
                 /\ chat'.out = chat.out /\ chat'.raised = 0
                 /\ chat'.status = chat.status)
        /\ (chat'.state = "CANCELLED") => chat'.cancelled
        /\ chat'.stream
             => (chat'.pc = "closed" <=> chat'.state \in TerminalStates)
        /\ (chat.state \in TerminalStates /\ chat'.pc # "idle") => chat' = chat ]_vars

\* a stream was cancelled after its first unit had gone out
C19_Witness ==
    /\ Closed /\ Streamed /\ chat.cancelled /\ chat.state = "CANCELLED"
    /\ Len(chat.out) = 1 /\ chat.raised = 0

-----------------------------------------------------------------------------
(* C20, as stated: under any interleaving of concurrent validate calls,    *)
(* the store not being modified, every call that returns true contributes  *)
(* exactly one to its key's usage_count: once the calls have returned, the  *)
(* usage_count of each key is the number of calls that accepted it.         *)

C20_Original ==
    (\A t \in Threads : thr[t].pc = "done")
       => \A k \in ThreadKeys :
             LET accepted == Cardinality({ t \in Threads : thr[t].api_key = k /\ thr[t].ret })
             IN  IF k \in Keys(api_keys)
                 THEN Get(api_keys, k).usage_count = accepted
                 ELSE accepted = 0

-----------------------------------------------------------------------------
(* C21: under any interleaving of concurrent create requests, each          *)
(* suspended only at its body read, no two records of the registry share a  *)
(* name: a create request ends either with 400 and the registry as it was,  *)
(* or with 200 and one new record whose name no record had before.          *)

\* the records of t have pairwise distinct names
NamesDistinct(t) ==
    \A i, j \in 1..Len(t) : t[i].name = t[j].name => i = j

C21_CreateKeepsNamesUnique ==
    [][ /\ NamesDistinct(api_keys) => NamesDistinct(api_keys')
        /\ \A c \in Clients :
              (/\ req[c].pc = "body" /\ req[c].route = "admin_create"
               /\ req'[c].pc = "done")
                 => \/ (req'[c].status = 400 /\ regVars' = regVars)
                    \/ (/\ req'[c].status = 200
                        /\ Len(api_keys') = Len(api_keys) + 1
                        /\ SubSeq(api_keys', 1, Len(api_keys)) = api_keys
                        /\ api_keys'[Len(api_keys')].name \notin existing_names(api_keys)
                        /\ api_keys'[Len(api_keys')].key \notin Keys(api_keys)) ]_vars

\* of two create requests suspended together, one created the name and the
\* other was then rejected
C21_Witness ==
    /\ req["c1"].route = "admin_create" /\ req["c2"].route = "admin_create"
    /\ req["c1"].ran /\ req["c2"].ran
    /\ req["c1"].status = 200 /\ req["c2"].status = 400
    /\ \E i \in 1..Len(api_keys) : api_keys[i].name = NameV
    /\ NamesDistinct(api_keys)

-----------------------------------------------------------------------------
(* C22: hot reload never misses a change of the store, written at any point *)
(* after a load read it: whenever a validate call finds the store readable  *)
(* and decides not to reload, the table holds the secrets of the store's    *)
(* current content.                                                         *)

C22_Original ==
    [][ \A t \in Threads :
           (/\ thr[t].pc = "check" /\ thr'[t].pc = "lookup"
            /\ file.exists)
              => Keys(api_keys) = StoreSecrets(file) ]_vars

====
